---------------------------- MODULE Spec2Model ----------------------------
(***************************************************************************)
(* The task resource API of TaskLog: the three Astro API routes            *)
(*   POST   /api/tasks         src/pages/api/tasks/index.ts  post          *)
(*   POST   /api/tasks/{id}    src/pages/api/tasks/[id].ts   post          *)
(*   DELETE /api/tasks/{id}    src/pages/api/tasks/[id].ts   del           *)
(* over the Firestore collection "tasks".                                  *)
(*                                                                         *)
(* A handler runs synchronously from the resolved form data to the point   *)
(* where it awaits its store call (or returns 400/404 before issuing one); *)
(* that is one step, Receive.  The store then settles the call: it applies *)
(* it or rejects it, and the handler maps the outcome to its response;     *)
(* that is the second step, StoreSettle.                                   *)
(***************************************************************************)
EXTENDS Naturals, FiniteSets, TLC

\* -------------------------------------------------------------- bounds
\* Number of document ids the store can hand out.
MaxDocs == 2
\* Number of requests that can be in flight at the same time (Race).
MaxReq == 2

\* -------------------------------------------------------------- values
\* JavaScript's undefined (the result of ?.toString() on null) and null
\* (FormData.get of an absent field), kept apart from every string.
Undefined == "<undefined>"
Null == "<null>"

\* The ids the store assigns, as the strings a client sends back in the path.
IdNames == <<"t1", "t2", "t3", "t4">>
Ids == {IdNames[n] : n \in 1..MaxDocs}

\* What FormData.get returns for each field: null when absent, else a string.
TitleEntries == {Null, "", "A", "B"}
PubDateEntries == {Null, "", "2024-01-01", "2024-02-02"}
DescriptionEntries == {Null, "", "d"}
HeroImageEntries == {Null, "", "h"}
ContentEntries == {Null, "on", "off"}

AllForms == [title : TitleEntries, pubDate : PubDateEntries,
             description : DescriptionEntries, heroImage : HeroImageEntries,
             content : ContentEntries]

\* Two complete forms that differ in every field.
FormA == [title |-> "A", pubDate |-> "2024-01-01", description |-> "d",
          heroImage |-> "h", content |-> "on"]
FormB == [title |-> "B", pubDate |-> "2024-02-02", description |-> "",
          heroImage |-> "", content |-> Null]

\* The number of fields in which two forms differ.
Diff(f, g) == Cardinality({k \in DOMAIN f : f[k] # g[k]})

\* The forms the requests are drawn from: FormA and FormB, each with any
\* one field changed to any other entry; FormA with title and pubDate both
\* absent or empty; FormA and FormB with every optional field absent.
Forms ==
    {f \in AllForms : Diff(f, FormA) <= 1 \/ Diff(f, FormB) <= 1}
    \cup {[FormA EXCEPT !.title = t, !.pubDate = p] : t, p \in {Null, ""}}
    \cup {[f EXCEPT !.description = Null, !.heroImage = Null, !.content = Null] :
            f \in {FormA, FormB}}

\* The forms of the requests that race: both complete forms, and one with
\* an empty title.
RaceForms == {FormA, FormB, [FormA EXCEPT !.title = ""]}

\* params.id: absent, empty, or a non-empty path segment.
PathIds == {Undefined, ""} \cup Ids

\* --------------------------------------------------- the handlers' parsing
\* formData.get(k)?.toString(): undefined for an absent field.
OptToString(entry) == IF entry = Null THEN Undefined ELSE entry

\* formData.get("content") === "on"
ContentFlagAnyValue(entry) == entry # Null
ContentFlag(entry) == entry = "on"

\* The five constants both post handlers compute from the form.
ParseForm(form) ==
    [title |-> OptToString(form.title),
     pubDate |-> OptToString(form.pubDate),
     content |-> ContentFlag(form.content),
     description |-> OptToString(form.description),
     heroImage |-> OptToString(form.heroImage)]

\* JavaScript's !v for a string-or-undefined v.
NotOnlyUndefined(v) == v = Undefined
Not(v) == v = Undefined \/ v = ""

\* The fields of the call data that hold a string or undefined.
StringFields == {"title", "pubDate", "description", "heroImage"}

\* ---------------------------------------------------------- responses
NoResponse == [status |-> 0, location |-> Null, body |-> Null]
BadRequest == [status |-> 400, location |-> Null, body |-> "Missing required fields"]
NotFound == [status |-> 404, location |-> Null, body |-> "Cannot find task"]
InternalError == [status |-> 500, location |-> Null, body |-> "Something went wrong"]
\* Astro's redirect(path): status 302 with a Location header and no body.
Redirect(path) == [status |-> 302, location |-> path, body |-> Null]

\* What a handler does next: it returns a response, or it issues a store
\* call and awaits it.
NoData == [title |-> Undefined, pubDate |-> Undefined, content |-> FALSE,
           description |-> Undefined, heroImage |-> Undefined]
Return(response) == [ret |-> TRUE, resp |-> response, op |-> "none", id |-> Undefined,
                     data |-> NoData]
Await(op, id, data) == [ret |-> FALSE, resp |-> NoResponse, op |-> op, id |-> id,
                        data |-> data]

\* index.ts post, up to the await of tasksRef.add.
CreateIssue(form) ==
    LET p == ParseForm(form) IN
    IF Not(p.title) \/ Not(p.pubDate) THEN Return(BadRequest)
    ELSE Await("add", Undefined, p)

\* [id].ts post, up to the await of tasksRef.doc(params.id).update.
UpdateIssueIdFirst(form, id) ==
    LET p == ParseForm(form) IN
    IF Not(id) THEN Return(NotFound)
    ELSE IF Not(p.title) \/ Not(p.pubDate) THEN Return(BadRequest)
    ELSE Await("update", id, p)
UpdateIssueOmitEmpty(form, id) ==
    LET p == ParseForm(form)
        sent == {"content"} \cup {k \in StringFields : ~Not(p[k])}
    IN  IF Not(p.title) \/ Not(p.pubDate) THEN Return(BadRequest)
        ELSE IF Not(id) THEN Return(NotFound)
        ELSE Await("update", id, [k \in sent |-> p[k]])
UpdateIssueAdds(form, id) ==
    LET p == ParseForm(form) IN
    IF Not(p.title) \/ Not(p.pubDate) THEN Return(BadRequest)
    ELSE IF Not(id) THEN Return(NotFound)
    ELSE Await("add", Undefined, p)
UpdateIssue(form, id) ==
    LET p == ParseForm(form) IN
    IF Not(p.title) \/ Not(p.pubDate) THEN Return(BadRequest)
    ELSE IF Not(id) THEN Return(NotFound)
    ELSE Await("update", id, p)

\* [id].ts del, up to the await of tasksRef.doc(params.id).delete.
DelIssueNoIdCheck(id) == Await("delete", id, NoData)
DelIssueNoCall(id) ==
    IF Not(id) THEN Return(NotFound)
    ELSE Return(Redirect("/dashboard"))
DelIssue(id) ==
    IF Not(id) THEN Return(NotFound)
    ELSE Await("delete", id, NoData)

\* The errors a store call can be rejected with, as the catch blocks
\* receive them; NoError when the call resolved.
NoError == "none"
ErrorKinds == {"unavailable", "permission-denied", "invalid-argument", "not-found"}

\* The rest of each handler, once its call has settled: the catch block on
\* a rejected call (catch (error), the error unused), the redirect otherwise.
CreateSettledNoCatch(error, form) == Return(Redirect("/dashboard"))
CreateSettledRetry(error, form) ==
    IF error # NoError THEN Await("add", Undefined, ParseForm(form))
    ELSE Return(Redirect("/dashboard"))
CreateSettledThrowsAfterAdd(error, form) == Return(InternalError)
CreateSettled(error, form) ==
    IF error # NoError THEN Return(InternalError) ELSE Return(Redirect("/dashboard"))
UpdateSettledNoCatch(error, form, id) == Return(Redirect("/dashboard"))
UpdateSettledLeaksError(error, form, id) ==
    IF error # NoError THEN Return([InternalError EXCEPT !.body = error])
    ELSE Return(Redirect("/dashboard"))
UpdateSettled(error, form, id) ==
    IF error # NoError THEN Return(InternalError) ELSE Return(Redirect("/dashboard"))
DelSettledOk200(error, id) ==
    IF error # NoError THEN Return(InternalError)
    ELSE Return([status |-> 200, location |-> Null, body |-> Null])
DelSettled(error, id) ==
    IF error # NoError THEN Return(InternalError) ELSE Return(Redirect("/dashboard"))

\* ------------------------------------------------------------ the store
\* The collection "tasks" as the store holds it: a function from the ids
\* of the existing documents to their fields.
\*
\* The handlers take the Firestore of the app that firebase/server exports
\* as it is, with its settings at their defaults: a call whose data has an
\* undefined field is refused (ignoreUndefinedProperties is off).
\* (content is a boolean in every call the handlers make.)
ValidData(data) ==
    \A k \in DOMAIN data \cap StringFields : data[k] # Undefined

\* Whether the store can apply the call at all.  add and update need valid
\* data; update fails with NOT_FOUND on a document that does not exist;
\* delete of a document that does not exist succeeds.
StoreAcceptsDeleteNeedsDoc(docs, op, id, data) ==
    CASE op = "add" -> ValidData(data)
      [] op = "update" -> ValidData(data) /\ id \in DOMAIN docs
      [] op = "delete" -> id \in DOMAIN docs
      [] OTHER -> FALSE
StoreAccepts(docs, op, id, data) ==
    CASE op = "add" -> ValidData(data)
      [] op = "update" -> ValidData(data) /\ id \in DOMAIN docs
      [] op = "delete" -> TRUE
      [] OTHER -> FALSE

\* The errors the store can reject the call with.  Data with an undefined
\* field is refused when the call is made, before anything is sent; any
\* call that is sent can fail on the way or be denied; an update of a
\* document that does not exist fails with NOT_FOUND.
StoreErrors(docs, op, id, data) ==
    IF op \in {"add", "update"} /\ ~ValidData(data)
    THEN {"invalid-argument"}
    ELSE {"unavailable", "permission-denied"}
         \cup (IF op = "update" /\ id \notin DOMAIN docs THEN {"not-found"} ELSE {})

\* collection.add(data): a new document under an id of the store's choosing.
StoreAdd(docs, newId, data) ==
    [i \in DOMAIN docs \cup {newId} |-> IF i = newId THEN data ELSE docs[i]]

\* doc(id).update(data): the named fields are overwritten, the others kept.
StoreUpdate(docs, id, data) ==
    [docs EXCEPT ![id] =
        [k \in DOMAIN docs[id] \cup DOMAIN data |->
            IF k \in DOMAIN data THEN data[k] ELSE docs[id][k]]]

\* doc(id).delete()
StoreDeleteClears(docs, id) ==
    [i \in {} |-> NoData]
StoreDelete(docs, id) ==
    [i \in DOMAIN docs \ {id} |-> docs[i]]

\* ------------------------------------------------------------- the state
VARIABLES
    tasks,   \* the documents of the collection "tasks"
    req,     \* per request slot: the request, where its handler is, its response
    life     \* the one document a client follows from its create to its delete

vars == <<tasks, req, life>>

Reqs == 1..MaxReq

NoForm == [title |-> Null, pubDate |-> Null, description |-> Null,
           heroImage |-> Null, content |-> Null]

NoPrev == [found |-> FALSE, doc |-> NoData]

\* A slot holds the request (kind, form, id), the handler's position (pc),
\* the store call it issued last (op, docId, data) and its response (resp).  Three
\* fields record what happened, for the properties to refer to: calls, the
\* number of store calls the handler has issued; settled, how the store
\* settled the last of them, and error, the error it rejected it with;
\* prev, the document the call addressed as it was when the store applied
\* the call.
Idle == [pc |-> "idle", kind |-> "none", form |-> NoForm, id |-> Undefined,
         op |-> "none", docId |-> Undefined, data |-> NoData,
         calls |-> 0, settled |-> "none", error |-> NoError,
         prev |-> NoPrev, resp |-> NoResponse]

\* No document is followed.  When one is, life holds its id, how far the
\* client has come with it (created, updated, deleted, as the redirects
\* told it), the document as it was created (made) and the collection as
\* it was before the create (base).
NoLife == [phase |-> "none", id |-> Undefined, made |-> NoData,
           base |-> [i \in {} |-> NoData]]

Init ==
    /\ tasks = [i \in {} |-> NoData]
    /\ req = [r \in Reqs |-> Idle]
    /\ life = NoLife

\* The handler of slot r moves on as `next` says: it responds, or it
\* issues the store call and awaits it.
Continue(r, from, next) ==
    req' = [req EXCEPT ![r] =
        IF next.ret
        THEN [from EXCEPT !.pc = "done", !.resp = next.resp]
        ELSE [from EXCEPT !.pc = "await", !.op = next.op, !.docId = next.id,
                          !.data = next.data, !.calls = from.calls + 1]]

Arrived(kind, form, id) == [Idle EXCEPT !.kind = kind, !.form = form, !.id = id]

Free(r) == req[r].pc = "idle"

\* The creates in flight, each of which will need an id of its own.
PendingAdds == Cardinality({s \in Reqs : req[s].pc = "await" /\ req[s].op = "add"})

\* POST /api/tasks with `form` arrives and runs to its first await or return.
ReceiveCreate(r, form) ==
    /\ Free(r)
    /\ Cardinality(DOMAIN tasks) + PendingAdds < MaxDocs
    /\ Continue(r, Arrived("create", form, Undefined), CreateIssue(form))
    /\ UNCHANGED tasks

\* POST /api/tasks/{id} with `form` arrives.
ReceiveUpdate(r, form, id) ==
    /\ Free(r)
    /\ Continue(r, Arrived("update", form, id), UpdateIssue(form, id))
    /\ UNCHANGED tasks

\* DELETE /api/tasks/{id} arrives.
ReceiveDel(r, id) ==
    /\ Free(r)
    /\ Continue(r, Arrived("delete", NoForm, id), DelIssue(id))
    /\ UNCHANGED tasks

\* What the handler of slot r does once its call has settled.
Settled(r, error) ==
    CASE req[r].kind = "create" -> CreateSettled(error, req[r].form)
      [] req[r].kind = "update" -> UpdateSettled(error, req[r].form, req[r].id)
      [] req[r].kind = "delete" -> DelSettled(error, req[r].id)

\* The document under `id` as the collection holds it now.
Lookup(docs, id) ==
    IF id \in DOMAIN docs THEN [found |-> TRUE, doc |-> docs[id]] ELSE NoPrev

\* The store applies the call slot r awaits, and the handler goes on.
StoreApplies(r) ==
    /\ req[r].pc = "await"
    /\ StoreAccepts(tasks, req[r].op, req[r].docId, req[r].data)
    /\ \/ /\ req[r].op = "add"
          /\ \E newId \in Ids \ DOMAIN tasks :
                tasks' = StoreAdd(tasks, newId, req[r].data)
       \/ /\ req[r].op = "update"
          /\ tasks' = StoreUpdate(tasks, req[r].docId, req[r].data)
       \/ /\ req[r].op = "delete"
          /\ tasks' = StoreDelete(tasks, req[r].docId)
    /\ Continue(r, [req[r] EXCEPT !.settled = "applied", !.error = NoError,
                                  !.prev = Lookup(tasks, req[r].docId)],
                Settled(r, NoError))

\* The store rejects the call slot r awaits with `error` (invalid data, no
\* such document, network, permission) and leaves the collection as it is.
StoreRejects(r, error) ==
    /\ req[r].pc = "await"
    /\ error \in StoreErrors(tasks, req[r].op, req[r].docId, req[r].data)
    /\ UNCHANGED tasks
    /\ Continue(r, [req[r] EXCEPT !.settled = "rejected", !.error = error],
                Settled(r, error))

\* The response of slot r has gone out; the slot takes the next request.
Close(r) ==
    /\ req[r].pc = "done"
    /\ req' = [req EXCEPT ![r] = Idle]
    /\ UNCHANGED tasks

\* One request at a time, over every form and path id.
Next ==
    \/ Close(1) /\ UNCHANGED life
    \/ \E form \in Forms : ReceiveCreate(1, form) /\ UNCHANGED life
    \/ \E form \in Forms, id \in PathIds :
            ReceiveUpdate(1, form, id) /\ UNCHANGED life
    \/ \E id \in PathIds : ReceiveDel(1, id) /\ UNCHANGED life
    \/ StoreApplies(1) /\ UNCHANGED life
    \/ \E error \in ErrorKinds : StoreRejects(1, error) /\ UNCHANGED life

Spec == Init /\ [][Next]_vars

\* Up to MaxReq requests in flight at once, their steps interleaved in
\* any order.  A request takes the lowest slot that is free; the updates
\* and deletes that race carry an id (one without is answered on arrival
\* and meets no other request), and the store rejects with one
\* error.
RaceErrors == {"unavailable"}
LowestFree(r) == Free(r) /\ \A s \in Reqs : s < r => ~Free(s)

\* The store settles the call slot r awaits, one way or the other.
Settles(r) ==
    /\ \/ StoreApplies(r)
       \/ \E error \in RaceErrors : StoreRejects(r, error)
    /\ UNCHANGED life

RaceNext ==
    \/ \E r \in Reqs : Close(r) /\ UNCHANGED life
    \/ \E r \in Reqs, form \in RaceForms :
            LowestFree(r) /\ ReceiveCreate(r, form) /\ UNCHANGED life
    \/ \E r \in Reqs, form \in RaceForms, id \in Ids :
            LowestFree(r) /\ ReceiveUpdate(r, form, id) /\ UNCHANGED life
    \/ \E r \in Reqs, id \in Ids :
            LowestFree(r) /\ ReceiveDel(r, id) /\ UNCHANGED life
    \/ \E r \in Reqs : Settles(r)

Race == Init /\ [][RaceNext]_vars

\* Requests that race, with a store that settles every call it is sent: the
\* call of a slot that awaits is, sooner or later, applied or rejected.
\* The forms are one complete form and one with an empty title.
FairForms == {FormA, [FormA EXCEPT !.title = ""]}

FairNext ==
    \/ \E r \in Reqs : Close(r) /\ UNCHANGED life
    \/ \E r \in Reqs, form \in FairForms :
            LowestFree(r) /\ ReceiveCreate(r, form) /\ UNCHANGED life
    \/ \E r \in Reqs, form \in FairForms, id \in Ids :
            LowestFree(r) /\ ReceiveUpdate(r, form, id) /\ UNCHANGED life
    \/ \E r \in Reqs, id \in Ids :
            LowestFree(r) /\ ReceiveDel(r, id) /\ UNCHANGED life
    \/ \E r \in Reqs : Settles(r)

RaceFair == Init /\ [][FairNext]_vars /\ \A r \in Reqs : WF_vars(Settles(r))

\* A client that takes one document through its life, one request at a
\* time: it creates a document, updates it under the id the store gave it,
\* deletes it under that id, and goes by the redirects.  Between two such
\* lives it may create documents it does not follow.
Lives == life.phase \in {"created", "updated"}

\* life after a step in which slot 1 may have responded.
Follow ==
    IF ~(req[1].pc # "done" /\ req'[1].pc = "done" /\ req'[1].resp.status = 302)
    THEN life' = life
    ELSE CASE req'[1].kind = "create" ->
                \/ life' = NoLife
                \/ \E n \in DOMAIN tasks' \ DOMAIN tasks :
                      life' = [phase |-> "created", id |-> n,
                               made |-> tasks'[n], base |-> tasks]
           [] req'[1].kind = "update" -> life' = [life EXCEPT !.phase = "updated"]
           [] req'[1].kind = "delete" -> life' = [life EXCEPT !.phase = "deleted"]

LifeNext ==
    \/ Close(1) /\ Follow
    \/ \E form \in RaceForms : ~Lives /\ ReceiveCreate(1, form) /\ Follow
    \/ \E form \in RaceForms : Lives /\ ReceiveUpdate(1, form, life.id) /\ Follow
    \/ life.phase = "updated" /\ ReceiveDel(1, life.id) /\ Follow
    \/ StoreApplies(1) /\ Follow
    \/ \E error \in ErrorKinds : StoreRejects(1, error) /\ Follow

Life == Init /\ [][LifeNext]_vars

\* Updates and deletes that race on the documents of the collection.  The
\* store gives a new document an id that no document has had; the model
\* has few ids, so here the add of a create is applied only while no slot
\* holds an update or a delete: no id is given out again while a request that
\* names it is in a slot.
NoneAddressed == \A s \in Reqs : req[s].kind \notin {"update", "delete"}

DuelErrors == {"unavailable", "not-found"}

DuelNext ==
    \/ \E r \in Reqs : Close(r) /\ UNCHANGED life
    \/ \E r \in Reqs, form \in RaceForms :
            LowestFree(r) /\ ReceiveCreate(r, form) /\ UNCHANGED life
    \/ \E r \in Reqs, form \in RaceForms, id \in Ids :
            LowestFree(r) /\ ReceiveUpdate(r, form, id) /\ UNCHANGED life
    \/ \E r \in Reqs, id \in Ids :
            LowestFree(r) /\ ReceiveDel(r, id) /\ UNCHANGED life
    \/ \E r \in Reqs :
            /\ req[r].kind = "create" => NoneAddressed
            /\ StoreApplies(r) /\ UNCHANGED life
    \/ \E r \in Reqs, error \in DuelErrors :
            StoreRejects(r, error) /\ UNCHANGED life

Duel == Init /\ [][DuelNext]_vars

\* ======================================================= the properties
\* The words of the specification, said over the requests as they arrive.

\* A form entry that is absent or the empty string.
Missing(entry) == entry \in {Null, ""}

\* A path id that is absent or empty.
NoId(id) == id \in {Undefined, ""}

\* The request of slot r has title and pubDate.
HasRequired(q) == ~Missing(q.form.title) /\ ~Missing(q.form.pubDate)

\* The request passes the validation the specification lays down for its kind.
PassesValidation(q) ==
    /\ q.kind \in {"create", "update"} => HasRequired(q)
    /\ q.kind \in {"update", "delete"} => ~NoId(q.id)

\* The document the specification says a form is stored as.
DocOf(form) ==
    [title |-> form.title, pubDate |-> form.pubDate,
     description |-> form.description, heroImage |-> form.heroImage,
     content |-> (form.content = "on")]

\* The handler of slot r responds in this step.
Responds(r) == req[r].pc # "done" /\ req'[r].pc = "done"

TheRedirect == [status |-> 302, location |-> "/dashboard", body |-> Null]

\* C1: a create or update request whose title or pubDate is absent or empty
\* is answered with status 400, straight from its arrival, without a store
\* call, and the collection is after the response what it was before.
C1_MissingFieldsAre400 ==
    [][\A r \in Reqs :
        (/\ Responds(r)
         /\ req'[r].kind \in {"create", "update"}
         /\ ~HasRequired(req'[r]))
        => (/\ req'[r].resp.status = 400
            /\ req[r].pc = "idle"
            /\ req'[r].calls = 0
            /\ req'[r].settled = "none"
            /\ tasks' = tasks)]_vars

\* A request without title was answered 400 while the collection held documents.
C1_Witness ==
    \E r \in Reqs :
        /\ req[r].pc = "done"
        /\ req[r].kind \in {"create", "update"}
        /\ Missing(req[r].form.title)
        /\ req[r].resp.status = 400
        /\ DOMAIN tasks # {}

\* C2: an update (with title and pubDate) or a delete whose path id is absent
\* or empty is answered with status 404 without a store call, and the
\* collection is unchanged.
C2_MissingIdIs404 ==
    [][\A r \in Reqs :
        (/\ Responds(r)
         /\ req'[r].kind \in {"update", "delete"}
         /\ NoId(req'[r].id)
         /\ req'[r].kind = "update" => HasRequired(req'[r]))
        => (/\ req'[r].resp.status = 404
            /\ req[r].pc = "idle"
            /\ req'[r].calls = 0
            /\ req'[r].settled = "none"
            /\ tasks' = tasks)]_vars

\* A delete without id was answered 404 while the collection held documents.
C2_Witness ==
    \E r \in Reqs :
        /\ req[r].pc = "done"
        /\ req[r].kind = "delete"
        /\ NoId(req[r].id)
        /\ req[r].resp.status = 404
        /\ DOMAIN tasks # {}

\* The step adds exactly one document, `doc`, and leaves the others alone.
AddsExactly(doc) ==
    /\ Cardinality(DOMAIN tasks') = Cardinality(DOMAIN tasks) + 1
    /\ DOMAIN tasks \subseteq DOMAIN tasks'
    /\ \A i \in DOMAIN tasks : tasks'[i] = tasks[i]
    /\ \A n \in DOMAIN tasks' \ DOMAIN tasks : tasks'[n] = doc

C4_RejectedIs500 ==
    \A r \in Reqs :
        (req[r].pc = "done" /\ req[r].settled = "rejected")
        => (/\ req[r].resp.status = 500
            /\ req[r].resp.location # "/dashboard"
            /\ req[r].kind \in {"create", "update", "delete"})

\* The store rejected the call of an update, and the response was 500.
C4_Witness ==
    \E r \in Reqs :
        /\ req[r].pc = "done"
        /\ req[r].kind = "update"
        /\ req[r].settled = "rejected"
        /\ req[r].resp.status = 500

\* C5: an update answered with the redirect leaves the document reading
\* exactly the five fields of the update: none keeps its earlier value
\* unless the update submitted that value.
C5_UpdateOverwritesAllFields ==
    [][\A r \in Reqs :
        (Responds(r) /\ req'[r].kind = "update" /\ req'[r].resp.status = 302)
        => (/\ req'[r].id \in DOMAIN tasks'
            /\ tasks'[req'[r].id] = DocOf(req'[r].form))]_vars

\* The document {A, 2024-01-01, d, h, true} was updated with {B, 2024-02-02,
\* "", "", false} and reads back the latter.
C5_Witness ==
    \E r \in Reqs :
        /\ req[r].pc = "done"
        /\ req[r].kind = "update"
        /\ req[r].resp.status = 302
        /\ req[r].form = FormB
        /\ req[r].prev = [found |-> TRUE, doc |-> DocOf(FormA)]
        /\ tasks[req[r].id] = [title |-> "B", pubDate |-> "2024-02-02",
                               description |-> "", heroImage |-> "",
                               content |-> FALSE]

\* C6: a handler responds with the redirect to /dashboard exactly when the
\* request passed validation and its one store call was applied; any other
\* response is a 400, 404 or 500 with a plain-text body, and no response
\* carries a document.
C6_RedirectIsTheOnlySuccess ==
    \A r \in Reqs :
        req[r].pc = "done"
        => (/\ req[r].resp = TheRedirect
               <=> (/\ PassesValidation(req[r])
                    /\ req[r].calls = 1
                    /\ req[r].settled = "applied")
            /\ req[r].resp # TheRedirect
               => (/\ req[r].resp.status \in {400, 404, 500}
                   /\ req[r].resp.location = Null
                   /\ req[r].resp.body \in {"Missing required fields",
                                            "Cannot find task",
                                            "Something went wrong"}))

\* A create was answered with the redirect.
C6_Witness ==
    \E r \in Reqs :
        /\ req[r].pc = "done"
        /\ req[r].kind = "create"
        /\ req[r].resp = TheRedirect
        /\ req[r].settled = "applied"

\* C7: an update that lacks title or pubDate and also lacks its id is
\* answered 400, and an update is answered 404 only if it has both title
\* and pubDate.
C7_RequiredFieldsBeforeId ==
    \A r \in Reqs :
        (req[r].pc = "done" /\ req[r].kind = "update")
        => (/\ (~HasRequired(req[r]) /\ NoId(req[r].id)) => req[r].resp.status = 400
            /\ req[r].resp.status = 404 => HasRequired(req[r]))

\* An update without pubDate and without id was answered 400.
C7_Witness ==
    \E r \in Reqs :
        /\ req[r].pc = "done"
        /\ req[r].kind = "update"
        /\ Missing(req[r].form.pubDate)
        /\ NoId(req[r].id)
        /\ req[r].resp.status = 400

\* C8: in every state reached from the empty collection by create, update
\* and delete requests in any interleaving, every document has a title and
\* a pubDate, neither of them empty.
C8_DocsHaveTitleAndPubDate ==
    \A i \in DOMAIN tasks :
        /\ {"title", "pubDate"} \subseteq DOMAIN tasks[i]
        /\ tasks[i].title \notin {Undefined, Null, ""}
        /\ tasks[i].pubDate \notin {Undefined, Null, ""}

\* With two documents in the collection, an update with an empty title of
\* one of them was answered while another request awaited the store.
C8_Witness ==
    /\ Cardinality(DOMAIN tasks) >= 2
    /\ \E r, s \in Reqs :
        /\ req[r].pc = "done"
        /\ req[r].kind = "update"
        /\ req[r].form.title = ""
        /\ req[r].id \in DOMAIN tasks
        /\ req[s].pc = "await"

\* The store call the specification gives each kind of request.
CallOf(kind) ==
    CASE kind = "create" -> "add"
      [] kind = "update" -> "update"
      [] kind = "delete" -> "delete"
      [] OTHER -> "none"

\* C9: a request issues at most one store call: one add for a create, one
\* update of its id for an update, one delete of its id for a delete, when
\* it passes validation; a request whose call was rejected has issued that
\* one call when it responds 500.
C9_OneStoreCallNoRetry ==
    \A r \in Reqs :
        /\ req[r].calls <= 1
        /\ req[r].pc = "await" => PassesValidation(req[r])
        /\ (req[r].pc \in {"await", "done"} /\ PassesValidation(req[r]))
           => (/\ req[r].calls = 1
               /\ req[r].op = CallOf(req[r].kind)
               /\ req[r].kind \in {"update", "delete"} => req[r].docId = req[r].id)
        /\ (req[r].pc = "done" /\ req[r].settled = "rejected")
           => (req[r].calls = 1 /\ req[r].resp.status = 500)

\* A create whose one call was rejected responded 500.
C9_Witness ==
    \E r \in Reqs :
        /\ req[r].pc = "done"
        /\ req[r].kind = "create"
        /\ req[r].settled = "rejected"
        /\ req[r].resp.status = 500
        /\ req[r].calls = 1

\* C10: a delete with a non-empty id of an existing document, unless the
\* store rejects its call, removes that document and no other, and is
\* answered with the redirect to /dashboard.
C10_DeleteRemovesTheDocument ==
    [][\A r \in Reqs :
        (/\ Responds(r)
         /\ req'[r].kind = "delete"
         /\ ~NoId(req'[r].id)
         /\ req'[r].id \in DOMAIN tasks
         /\ req'[r].settled # "rejected")
        => (/\ req'[r].id \notin DOMAIN tasks'
            /\ DOMAIN tasks' = DOMAIN tasks \ {req'[r].id}
            /\ \A i \in DOMAIN tasks' : tasks'[i] = tasks[i]
            /\ req'[r].resp = TheRedirect)]_vars

\* A delete removed one of two documents and was answered with the redirect.
C10_Witness ==
    \E r \in Reqs :
        /\ req[r].pc = "done"
        /\ req[r].kind = "delete"
        /\ req[r].prev.found
        /\ req[r].resp = TheRedirect
        /\ req[r].id \notin DOMAIN tasks
        /\ DOMAIN tasks # {}

\* C11 as stated: a delete of an id that names no document is always
\* answered with the redirect and leaves the collection unchanged.
C11_SecondDeleteAlwaysRedirects ==
    [][\A r \in Reqs :
        (/\ Responds(r)
         /\ req'[r].kind = "delete"
         /\ ~NoId(req'[r].id)
         /\ req'[r].id \notin DOMAIN tasks)
        => (/\ req'[r].resp = TheRedirect
            /\ tasks' = tasks)]_vars

\* C11: of two deletes of the same id, the first, once the store applies
\* it, removes the document and is redirected; the second finds no
\* document, and the store takes its call all the same: the call is never
\* refused for the document being missing, and unless it fails for another
\* reason the request is redirected exactly as the first was.  It is never
\* answered 404, a failed call is answered 500, and either way the
\* collection stays as the first delete left it: deleting from the
\* collection twice gives what deleting once gives.
C11_SecondDeleteRedirectsUnlessStoreFails ==
    [][/\ \A r \in Reqs :
            (req[r].pc = "await" /\ req[r].op = "delete")
            => StoreAccepts(tasks, req[r].op, req[r].docId, req[r].data)
       /\ \A r \in Reqs :
            (/\ Responds(r)
             /\ req'[r].kind = "delete"
             /\ ~NoId(req'[r].id))
            => (/\ req'[r].error # "not-found"
                /\ req'[r].resp = (IF req'[r].settled = "rejected"
                                   THEN InternalError ELSE TheRedirect)
                /\ tasks' = (IF req'[r].settled = "rejected"
                             THEN tasks ELSE StoreDelete(tasks, req'[r].id))
                /\ req'[r].id \notin DOMAIN tasks => tasks' = tasks
                /\ StoreDelete(StoreDelete(tasks, req'[r].id), req'[r].id)
                        = StoreDelete(tasks, req'[r].id))]_vars

\* Two deletes of the same id were both redirected: one found the document
\* and removed it, the other found none; another document is still there.
C11_Witness ==
    \E r, s \in Reqs :
        /\ req[r].pc = "done" /\ req[s].pc = "done"
        /\ req[r].kind = "delete" /\ req[s].kind = "delete"
        /\ req[r].id = req[s].id
        /\ req[r].prev.found /\ ~req[s].prev.found
        /\ req[s].settled = "applied"
        /\ req[r].resp = TheRedirect /\ req[s].resp = TheRedirect
        /\ req[r].id \notin DOMAIN tasks
        /\ DOMAIN tasks # {}

\* C12: updates of the same document that are in flight together are
\* applied one after the other, each as a whole: the update the store
\* applies leaves under its id the five fields of its own form and nothing
\* of what was there, and touches no other document.  So after two updates
\* that were both redirected the document is the field set of the one
\* applied last, and every document of the collection is at every moment
\* the field set of one request, never a combination of two.
C12_LastWriteWinsNoFieldMixing ==
    [][/\ \A r \in Reqs :
            (/\ Responds(r)
             /\ req'[r].kind = "update"
             /\ req'[r].resp = TheRedirect)
            => (/\ req'[r].id \in DOMAIN tasks
                /\ DOMAIN tasks' = DOMAIN tasks
                /\ tasks'[req'[r].id] = DocOf(req'[r].form)
                /\ \A i \in DOMAIN tasks \ {req'[r].id} : tasks'[i] = tasks[i])
       /\ \A i \in DOMAIN tasks' :
            \E form \in RaceForms : tasks'[i] = DocOf(form)]_vars

\* Two updates of the same document with different forms were both
\* redirected; the one applied last found the other's fields in the
\* document, and the document now holds its own fields, all five.
C12_Witness ==
    \E r, s \in Reqs :
        /\ req[r].pc = "done" /\ req[s].pc = "done"
        /\ req[r].kind = "update" /\ req[s].kind = "update"
        /\ req[r].id = req[s].id
        /\ req[r].resp = TheRedirect /\ req[s].resp = TheRedirect
        /\ \A k \in DOMAIN req[r].form : req[r].form[k] # req[s].form[k]
        /\ req[s].prev.found
        /\ req[s].prev.doc = DocOf(req[r].form)
        /\ req[s].id \in DOMAIN tasks
        /\ tasks[req[s].id] = DocOf(req[s].form)

\* The form of request q leaves out description, heroImage and content.
OmitsOptional(q) ==
    /\ q.form.description = Null
    /\ q.form.heroImage = Null
    /\ q.form.content = Null

\* C13: a create, or an update of an existing document, that has title and
\* pubDate and leaves out description, heroImage and content is, unless
\* the store is unavailable to it, answered with the redirect to /dashboard
\* (not 400, not 500), and the document it stored has content false.
C13_OmittedOptionalFieldsRedirect ==
    [][\A r \in Reqs :
        (/\ Responds(r)
         /\ req'[r].kind \in {"create", "update"}
         /\ HasRequired(req'[r])
         /\ OmitsOptional(req'[r])
         /\ req'[r].kind = "update" => req'[r].id \in DOMAIN tasks
         /\ req'[r].error \notin {"unavailable", "permission-denied"})
        => (/\ req'[r].resp = TheRedirect
            /\ \E i \in DOMAIN tasks' :
                 /\ i \notin DOMAIN tasks \/ i = req'[r].id
                 /\ tasks'[i].title = req'[r].form.title
                 /\ tasks'[i].content = FALSE)]_vars

\* C14: the store gives a document its id when it is created and the id
\* stays with it.  A create that is redirected named no id in its request
\* or in its call, and added one document under an id that no document of
\* the collection had, leaving the others under their ids as they were; an
\* update of id X that is redirected leaves a document under X and the set
\* of ids of the collection as it was.
C14_IdsAssignedByStoreAndStable ==
    [][\A r \in Reqs :
        /\ (/\ Responds(r)
            /\ req'[r].kind = "create"
            /\ req'[r].resp = TheRedirect)
           => (/\ req'[r].id = Undefined
               /\ req'[r].docId = Undefined
               /\ \E n \in Ids \ DOMAIN tasks :
                    /\ DOMAIN tasks' = DOMAIN tasks \cup {n}
                    /\ tasks'[n] = req'[r].data
               /\ \A i \in DOMAIN tasks : tasks'[i] = tasks[i])
        /\ (/\ Responds(r)
            /\ req'[r].kind = "update"
            /\ req'[r].resp = TheRedirect)
           => (/\ req'[r].docId = req'[r].id
               /\ req'[r].id \in DOMAIN tasks'
               /\ DOMAIN tasks' = DOMAIN tasks)]_vars

\* A create was redirected, and its document stands under an id of its own
\* next to a document that was there before.
C14_Witness ==
    \E r \in Reqs :
        /\ req[r].pc = "done"
        /\ req[r].kind = "create"
        /\ req[r].resp = TheRedirect
        /\ req[r].docId = Undefined
        /\ Cardinality(DOMAIN tasks) = 2
        /\ \E n \in DOMAIN tasks : tasks[n] = req[r].data

\* C15: whatever error the store rejects a call with, the handler answers
\* with status 500 and the body "Something went wrong", no location and
\* nothing of the error: the response of a rejected request is the one the
\* same request would have got had the store rejected it with any other
\* kind of error.
C15_StoreErrorsAreAnsweredAlike ==
    \A r \in Reqs :
        (req[r].pc = "done" /\ req[r].settled = "rejected")
        => (/\ req[r].error \in ErrorKinds
            /\ req[r].resp = [status |-> 500, location |-> Null,
                              body |-> "Something went wrong"]
            /\ \A error \in ErrorKinds : Settled(r, error) = Return(req[r].resp))

\* An update of a document that does not exist was rejected with
\* not-found and answered with the generic 500.
C15_Witness ==
    \E r \in Reqs :
        /\ req[r].pc = "done"
        /\ req[r].kind = "update"
        /\ req[r].settled = "rejected"
        /\ req[r].error = "not-found"
        /\ req[r].resp.status = 500
        /\ req[r].resp.body = "Something went wrong"

\* C16: a request that is answered 500 has left the collection as it
\* found it.  A request changes nothing when it arrives; the request that
\* is answered 500 made one store call, is answered in the step in which
\* that call is settled, and that step changes no document, adds none and
\* removes none.
C16_NoPartialStateOn500 ==
    [][\A r \in Reqs :
        /\ (req[r].pc = "idle" /\ req'[r].pc # "idle") => tasks' = tasks
        /\ (Responds(r) /\ req'[r].resp.status = 500)
           => (/\ req[r].pc = "await"
               /\ req'[r].calls = 1
               /\ req'[r].settled = "rejected"
               /\ tasks' = tasks)]_vars

\* An update of an existing document with valid data was answered 500,
\* and the document holds none of the fields the update sent.
C16_Witness ==
    \E r \in Reqs :
        /\ req[r].pc = "done"
        /\ req[r].kind = "update"
        /\ req[r].resp.status = 500
        /\ req[r].error = "unavailable"
        /\ req[r].id \in DOMAIN tasks
        /\ \A k \in DOMAIN req[r].data : tasks[req[r].id][k] # req[r].data[k]

\* C17: with a store that settles every call it is sent, every request is
\* answered, once, with 302, 400, 404 or 500, after at most one store call.
\* A request that makes no call is answered as it arrives; one that awaits
\* its call is answered when the call is settled, and the store can settle
\* it whatever the other requests in flight are doing; a request that has
\* been answered does nothing more.
C17_EveryRequestIsAnsweredOnce ==
    /\ \A r \in Reqs : (req[r].pc = "await") ~> (req[r].pc = "done")
    /\ [](\A r \in Reqs :
            /\ req[r].pc \in {"idle", "await", "done"}
            /\ req[r].pc = "done" => req[r].resp.status \in {302, 400, 404, 500}
            /\ req[r].pc = "await" => req[r].calls = 1 /\ ENABLED Settles(r))
    /\ [][\A r \in Reqs :
            /\ (req[r].pc = "idle" /\ req'[r].pc # "idle")
               => (req'[r].pc = "done" <=> req'[r].calls = 0)
            /\ (req[r].pc = "await" /\ req'[r] # req[r])
               => (Responds(r) /\ req'[r].calls = 1)
            /\ (req[r].pc = "done" /\ req'[r] # req[r])
               => req'[r] = Idle]_vars

\* Two requests have been answered, each after its one store call: one
\* with 302, the other with 500.
C17_Witness ==
    \E r, s \in Reqs :
        /\ req[r].pc = "done" /\ req[s].pc = "done"
        /\ req[r].calls = 1 /\ req[s].calls = 1
        /\ req[r].resp.status = 302
        /\ req[s].resp.status = 500

\* C18: an update that is redirected leaves the document with content true
\* exactly when the content entry of its form was "on", whatever the
\* content of the document was before; an update without the entry leaves
\* a document whose content was true with content false.
C18_ContentRecomputedOnUpdate ==
    [][\A r \in Reqs :
        (/\ Responds(r)
         /\ req'[r].kind = "update"
         /\ req'[r].resp = TheRedirect)
        => (/\ req'[r].id \in DOMAIN tasks'
            /\ tasks'[req'[r].id].content = (req'[r].form.content = "on")
            /\ req'[r].data.content = DocOf(req'[r].form).content)]_vars

\* An update without the content entry was redirected; the document had
\* content true before and has content false now.
C18_Witness ==
    \E r \in Reqs :
        /\ req[r].pc = "done"
        /\ req[r].kind = "update"
        /\ req[r].resp = TheRedirect
        /\ req[r].form.content = Null
        /\ req[r].prev.found
        /\ req[r].prev.doc.content = TRUE
        /\ req[r].id \in DOMAIN tasks
        /\ tasks[req[r].id].content = FALSE

\* C19: the three handlers work on one collection.  The document a create
\* added is, under the id the store gave it, the document that the update
\* and the delete of that id find and act on; while it lives the rest of
\* the collection is what the collection was before the create; and once
\* create, update and delete of that id have each been redirected, the
\* collection is what it was before the create.
C19_LifecycleComposes ==
    /\ Lives =>
        /\ life.id \in DOMAIN tasks
        /\ life.id \notin DOMAIN life.base
        /\ StoreDelete(tasks, life.id) = life.base
        /\ life.phase = "created" => tasks[life.id] = life.made
    /\ life.phase = "deleted" => tasks = life.base
    /\ (/\ life.phase \in {"updated", "deleted"}
        /\ req[1].pc = "done"
        /\ req[1].resp = TheRedirect)
       => (/\ req[1].kind \in {"update", "delete"}
           /\ req[1].id = life.id
           /\ req[1].docId = life.id
           /\ req[1].prev.found)

\* A document was created next to another, updated to other fields and
\* deleted, each time with a redirect; the delete found the document as
\* the update had left it, and the collection is what it was before.
C19_Witness ==
    /\ life.phase = "deleted"
    /\ DOMAIN life.base # {}
    /\ tasks = life.base
    /\ req[1].pc = "done"
    /\ req[1].kind = "delete"
    /\ req[1].id = life.id
    /\ req[1].resp = TheRedirect
    /\ req[1].prev.found
    /\ req[1].prev.doc # life.made

\* C20: an update with title and pubDate and a non-empty id under which
\* the collection has no document creates nothing: the store rejects the
\* call, the collection is unchanged (no document under that id, no
\* document more), and the request is answered 500, not with the redirect.
C20_UpdateOfMissingCreatesNothing ==
    [][\A r \in Reqs :
        (/\ Responds(r)
         /\ req'[r].kind = "update"
         /\ HasRequired(req'[r])
         /\ ~NoId(req'[r].id)
         /\ req'[r].id \notin DOMAIN tasks)
        => (/\ tasks' = tasks
            /\ req'[r].id \notin DOMAIN tasks'
            /\ req'[r].calls = 1
            /\ req'[r].op = "update"
            /\ req'[r].settled = "rejected"
            /\ req'[r].resp # TheRedirect
            /\ req'[r].resp.status = 500)]_vars

\* An update of an id without a document was rejected with not-found and
\* answered 500; the collection holds another document and none under
\* that id.
C20_Witness ==
    \E r \in Reqs :
        /\ req[r].pc = "done"
        /\ req[r].kind = "update"
        /\ HasRequired(req[r])
        /\ req[r].id \in Ids \ DOMAIN tasks
        /\ req[r].error = "not-found"
        /\ req[r].resp.status = 500
        /\ DOMAIN tasks # {}

\* C21: an update and a delete of the same id race.  Once both have been
\* answered and the delete was redirected, there is no document under
\* that id, whichever call the store applied first: the delete the store
\* applied removed the document, and an update never puts a document where
\* there is none, for the step that settles an update adds no id to the
\* collection and an update that finds no document is rejected.
C21_UpdateNeverResurrects ==
    /\ [](\A u, d \in Reqs :
            (/\ req[u].pc = "done" /\ req[d].pc = "done"
             /\ req[u].kind = "update" /\ req[d].kind = "delete"
             /\ req[u].id = req[d].id
             /\ req[d].resp = TheRedirect)
            => req[d].id \notin DOMAIN tasks)
    /\ [][\A r \in Reqs :
            /\ (Responds(r) /\ req'[r].kind = "delete" /\ req'[r].resp = TheRedirect)
               => req'[r].id \notin DOMAIN tasks'
            /\ (Responds(r) /\ req'[r].kind = "update")
               => (/\ DOMAIN tasks' = DOMAIN tasks
                   /\ req'[r].id \notin DOMAIN tasks => tasks' = tasks)]_vars

\* A delete found the document, removed it and was redirected; an update
\* of the same id, settled after it, was rejected with not-found and
\* answered 500; there is no document under the id.
C21_Witness ==
    \E u, d \in Reqs :
        /\ req[u].pc = "done" /\ req[d].pc = "done"
        /\ req[u].kind = "update" /\ req[d].kind = "delete"
        /\ req[u].id = req[d].id
        /\ req[d].prev.found
        /\ req[d].resp = TheRedirect
        /\ req[u].error = "not-found"
        /\ req[u].resp.status = 500
        /\ req[d].id \notin DOMAIN tasks

\* The ids under which the collection differs before and after the step.
Touched ==
    {i \in DOMAIN tasks \cup DOMAIN tasks' :
        \/ i \notin DOMAIN tasks
        \/ i \notin DOMAIN tasks'
        \/ tasks'[i] # tasks[i]}

\* C22: a request touches only the document it addresses.  An update or a
\* delete of id X that is redirected leaves every document under another
\* id there and as it was, in all five fields; a create that is redirected
\* leaves every document that was there as it was; a delete changes the
\* number of documents by one at most; and no step of any request touches
\* more than one document.
C22_OnlyTheAddressedDocument ==
    [][/\ Cardinality(Touched) <= 1
       /\ \A r \in Reqs :
            /\ (/\ Responds(r)
                /\ req'[r].kind \in {"update", "delete"}
                /\ req'[r].resp = TheRedirect)
               => (/\ Touched \subseteq {req'[r].id}
                   /\ \A i \in DOMAIN tasks \ {req'[r].id} :
                        i \in DOMAIN tasks' /\ tasks'[i] = tasks[i])
            /\ (/\ Responds(r)
                /\ req'[r].kind = "create"
                /\ req'[r].resp = TheRedirect)
               => (/\ Touched \cap DOMAIN tasks = {}
                   /\ \A i \in DOMAIN tasks :
                        i \in DOMAIN tasks' /\ tasks'[i] = tasks[i])
            /\ (Responds(r) /\ req'[r].kind = "delete")
               => (Cardinality(DOMAIN tasks) - Cardinality(DOMAIN tasks')
                     \in {0, 1})]_vars

\* An update was redirected and its document holds its fields; another
\* document, which it did not address, holds other fields in all five.
C22_Witness ==
    \E r \in Reqs :
        /\ req[r].pc = "done"
        /\ req[r].kind = "update"
        /\ req[r].resp = TheRedirect
        /\ req[r].id \in DOMAIN tasks
        /\ tasks[req[r].id] = req[r].data
        /\ \E i \in DOMAIN tasks \ {req[r].id} :
             \A k \in DOMAIN req[r].data : tasks[i][k] # req[r].data[k]

=============================================================================
